---------------------------- MODULE Spec2Model ----------------------------
(***************************************************************************)
(* Model of deploy/deploy/deploy.py: the `deploy` command line tool.       *)
(*                                                                         *)
(* main() loads and validates the configuration document, loads and        *)
(* validates the deployment document, constructs a Deployer and calls      *)
(* Deployer.execute, which runs one command per install spec, uninstall    *)
(* spec and paster step through Deployer._execute, then the restart        *)
(* command.                                                                *)
(*                                                                         *)
(* Representation.  A Python string is a sequence of atoms (TLA+ strings   *)
(* that hold no space), the atom " " being one space character; so         *)
(* "svc restart" is <<"svc", " ", "restart">>.  A YAML mapping is a        *)
(* function whose domain is its set of keys, a YAML list a sequence.  A    *)
(* scalar carries its YAML type: [type |-> "string", val |-> s].  The      *)
(* lists and mappings of the documents drawn here stand where the schemas  *)
(* ask for a list or a mapping.                                            *)
(***************************************************************************)
EXTENDS Integers, Sequences, FiniteSets, TLC

VARIABLES
    pc,          \* where main() is: "main", "config_valid", "deployment_valid",
                 \* "deployer", "execute", "done" (exit 0) or "error"
    dry_run,     \* the --dry-run flag
    config,      \* the configuration document, once loaded
    deployment,  \* the deployment document, once loaded
    errors,      \* the error tree of the last validation
    uid, gid,    \* Deployer.uid, Deployer.gid (-1 before construction)
    op, idx,     \* execute's loops: index of the operation, index in its list
    calls,       \* the invocations of Deployer._execute so far, with arguments
    events,      \* what the process did, in order: log records, children, prints
    raised,      \* the exception that ended the run ("none" while none has)
    message,     \* the message of the ClickException main() raised, if it did
    proc         \* the uid and gid of the process that runs main()

vars == <<pc, dry_run, config, deployment, errors, uid, gid, op, idx,
          calls, events, raised, message, proc>>

---------------------------------------------------------------------------
(* Bounds of the model *)

\* Most commands a deployment document asks for: its specs and paster steps,
\* a step holding no spec counted as one.
MaxCmds == 3

---------------------------------------------------------------------------
(* Python strings and lists *)

\* A mapping with no key.
EmptyDict == [k \in {} |-> <<>>]

\* str.split(' '): cut at every single space; n spaces give n + 1 tokens,
\* empty ones included.
RECURSIVE SplitFrom(_, _)
SplitFrom(s, cur) ==
    IF s = <<>> THEN <<cur>>
    ELSE IF Head(s) = " " THEN <<cur>> \o SplitFrom(Tail(s), <<>>)
    ELSE SplitFrom(Tail(s), Append(cur, Head(s)))

Split(s) == SplitFrom(s, <<>>)

\* ' '.join(cmd)
RECURSIVE Join(_)
Join(cmd) ==
    IF cmd = <<>> THEN <<>>
    ELSE IF Len(cmd) = 1 THEN cmd[1]
    ELSE cmd[1] \o <<" ">> \o Join(Tail(cmd))

\* The conversion specifiers of a %-format string.
Specifiers == {"%s", "%d"}

NumSpecifiers(fmt) == Cardinality({i \in 1..Len(fmt) : fmt[i] \in Specifiers})

\* fmt % args, defined when args has one string per specifier.
RECURSIVE Format(_, _)
Format(fmt, args) ==
    IF fmt = <<>> THEN <<>>
    ELSE IF Head(fmt) \in Specifiers
         THEN Head(args) \o Format(Tail(fmt), Tail(args))
         ELSE <<Head(fmt)>> \o Format(Tail(fmt), args)

\* logger.info / warning / error (fmt, *args) under logging.basicConfig: the
\* handler formats the record when it emits it; a format string whose
\* specifiers do not match the arguments raises TypeError inside the handler,
\* which prints a traceback to stderr instead of the message and returns.
LogRecord(level, fmt, args) ==
    IF NumSpecifiers(fmt) = Len(args)
    THEN [ev |-> "log", level |-> level, msg |-> Format(fmt, args)]
    ELSE [ev |-> "logging_error", level |-> level, msg |-> fmt]

\* repr of a list of strings, as '%s' % cmd gives it.
RECURSIVE ReprItems(_)
ReprItems(cmd) ==
    IF cmd = <<>> THEN <<>>
    ELSE IF Len(cmd) = 1 THEN <<"'">> \o cmd[1] \o <<"'">>
    ELSE <<"'">> \o cmd[1] \o <<"'", ",", " ">> \o ReprItems(Tail(cmd))

Repr(cmd) == <<"[">> \o ReprItems(cmd) \o <<"]">>

---------------------------------------------------------------------------
(* The configuration document and validate_config *)

Str(s) == [type |-> "string", val |-> s]
Bool(b) == [type |-> "boolean", val |-> b]

\* The values of an error tree, each with its Python type: a mapping from
\* keys to trees, a list of trees; a leaf is a string, Str(message).
ErrDict(f) == [type |-> "dict", val |-> f]
ErrList(l) == [type |-> "list", val |-> l]

\* The keys of validate_config's schema.
ConfigFields == {"name", "restart", "virtualenv", "config", "user", "group"}

\* ConfigSchema with 'required' left out of the rule of 'group'.
ConfigSchema_GroupOptional ==
    [f \in ConfigFields |-> [type |-> "string", required |-> f # "group"]]

\* The rules of validate_config's schema: every key a required string.
ConfigSchema ==
    [f \in ConfigFields |-> [type |-> "string", required |-> TRUE]]

\* A configuration that validates.
GoodConfig ==
    [name       |-> Str(<<"site">>),
     restart    |-> Str(<<"svc", " ", "restart", " ", "site">>),
     virtualenv |-> Str(<<"/opt/venv">>),
     config     |-> Str(<<"/etc/site.ini">>),
     user       |-> Str(<<"deploy">>),
     group      |-> Str(<<"www">>)]

\* The configuration documents main() may load: GoodConfig with any set of
\* its keys left out, with a value of another type, with a key the schema
\* does not know.
ConfigDocs ==
    {[f \in fs |-> GoodConfig[f]] : fs \in SUBSET ConfigFields}
    \cup {[GoodConfig EXCEPT !["user"] = [type |-> "integer", val |-> <<"1000">>]]}
    \cup {[f \in ConfigFields \cup {"port"} |->
              IF f = "port" THEN Str(<<"80">>) ELSE GoodConfig[f]]}

\* What cerberus finds wrong in a mapping: each offending key with its
\* message (one rule can fail per key under these schemas).
SchemaErrors(schema, doc) ==
    LET missing == {f \in DOMAIN schema : schema[f].required /\ f \notin DOMAIN doc}
        unknown == DOMAIN doc \ DOMAIN schema
        badtype == {f \in DOMAIN doc \cap DOMAIN schema :
                        doc[f].type # schema[f].type}
    IN [f \in missing \cup unknown \cup badtype |->
            IF f \in missing THEN <<"required field">>
            ELSE IF f \in unknown THEN <<"unknown field">>
            ELSE <<"must be of ", schema[f].type, " type">>]

\* Validator.errors for a mapping: under each offending key the list of its
\* messages.
ErrorTree(errs) == ErrDict([f \in DOMAIN errs |-> ErrList(<<Str(errs[f])>>)])

\* validate_config(config): the pair (document, errors); errors is False
\* when the document validates.
validate_config(doc) ==
    LET errs == SchemaErrors(ConfigSchema, doc)
    IN IF errs = EmptyDict
       THEN [doc |-> doc, errors |-> Bool(FALSE)]
       ELSE [doc |-> doc, errors |-> ErrorTree(errs)]

\* Python's truth value of what a validation gives as errors: False, or a
\* mapping.
Truthy(errs) == IF errs.type = "boolean" THEN errs.val ELSE DOMAIN errs.val # {}

---------------------------------------------------------------------------
(* The deployment document and validate_deployment *)

\* install_schema, lines 199-216.
install_schema ==
    [name          |-> [type |-> "string", required |-> TRUE],
     src           |-> [type |-> "string", required |-> FALSE],
     tag           |-> [type |-> "string", required |-> FALSE],
     version       |-> [type |-> "string", required |-> FALSE],
     fail_on_error |-> [type |-> "boolean", required |-> FALSE]]

\* The schema of an uninstall spec, lines 233-236.
uninstall_schema ==
    [name          |-> [type |-> "string", required |-> TRUE],
     fail_on_error |-> [type |-> "boolean", required |-> FALSE]]

\* The schema of a paster step, lines 243-246.
paster_schema ==
    [plugin  |-> [type |-> "string", required |-> FALSE],
     command |-> [type |-> "string", required |-> FALSE]]

\* command_schemas, lines 218-249: one mapping schema per kind of step, each
\* with a single optional key.
command_schemas ==
    << [key |-> "install",   type |-> "list", schema |-> install_schema],
       [key |-> "uninstall", type |-> "list", schema |-> uninstall_schema],
       [key |-> "paster",    type |-> "dict", schema |-> paster_schema] >>

\* Whether a step validates against one of command_schemas: it holds no key
\* but the schema's (unknown keys are errors), and the key's value, if there,
\* validates: every element of the list, or the mapping.
MatchesSchema(cs, step) ==
    /\ DOMAIN step \subseteq {cs.key}
    /\ cs.key \in DOMAIN step =>
          IF cs.type = "list"
          THEN \A i \in 1..Len(step[cs.key]) :
                  SchemaErrors(cs.schema, step[cs.key][i]) = EmptyDict
          ELSE SchemaErrors(cs.schema, step[cs.key]) = EmptyDict

\* How many of command_schemas a step validates against.
MatchCount(step) ==
    Cardinality({k \in 1..Len(command_schemas) :
                    MatchesSchema(command_schemas[k], step)})

\* OneOfSchema as 'anyof_schema': at least one of the schemas validates.
OneOfSchema_AnyOf(step) == MatchCount(step) >= 1

\* The rule 'oneof_schema', line 256: exactly one of the schemas validates.
OneOfSchema(step) == MatchCount(step) = 1

\* validate_deployment(deployment): the pair (document, errors).  The key
\* 'deployment' is not required; the schema sets no default, so the
\* normalized document is the document.  The errors of the steps are keyed by
\* the index of the step in the list, from 0, held here as '%s' writes it.
validate_deployment(doc) ==
    LET unknown == DOMAIN doc \ {"deployment"}
        steps   == IF "deployment" \in DOMAIN doc THEN doc.deployment ELSE <<>>
        bad     == {i \in 1..Len(steps) : ~OneOfSchema(steps[i])}
        tree    == [f \in unknown \cup (IF bad = {} THEN {} ELSE {"deployment"}) |->
                       IF f = "deployment"
                       THEN ErrList(<< ErrDict(
                               [i \in {ToString(j - 1) : j \in bad} |->
                                  ErrList(<<Str(<<"none or more than one rule validate">>)>>)]) >>)
                       ELSE ErrList(<<Str(<<"unknown field">>)>>)]
    IN IF tree = EmptyDict
       THEN [doc |-> doc, errors |-> Bool(FALSE)]
       ELSE [doc |-> doc, errors |-> ErrDict(tree)]

\* The install specs of the documents drawn: a pinned version with
\* fail_on_error left out, and false; a source checkout with a tag, which
\* states a version as well (the schema allows both), with fail_on_error true;
\* a spec with a name and nothing else.
InstallSpecs ==
    { [name |-> Str(<<"foo">>), version |-> Str(<<"1.2">>)],
      [name |-> Str(<<"foo">>), version |-> Str(<<"1.2">>),
       fail_on_error |-> Bool(FALSE)],
      [name |-> Str(<<"bar">>), src |-> Str(<<"git+https://host/bar.git">>),
       tag |-> Str(<<"v1">>), version |-> Str(<<"2.0">>),
       fail_on_error |-> Bool(TRUE)],
      [name |-> Str(<<"baz">>)] }

\* The uninstall specs: fail_on_error left out, false, and a spec with no name.
UninstallSpecs ==
    { [name |-> Str(<<"old">>)],
      [name |-> Str(<<"old">>), fail_on_error |-> Bool(FALSE)],
      [fail_on_error |-> Bool(FALSE)] }

\* The paster mappings: plugin and command, neither, and one with a
\* fail_on_error of its own.
PasterDicts ==
    { [plugin |-> Str(<<"ckan">>), command |-> Str(<<"db", " ", "upgrade">>)],
      EmptyDict,
      [plugin |-> Str(<<"ckan">>), command |-> Str(<<"db", " ", "upgrade">>),
       fail_on_error |-> Bool(FALSE)] }

\* What a document is drawn from: a spec of an install or an uninstall list,
\* or a whole step: a paster step, or a step with no key.
Items ==
    {[kind |-> "install", spec |-> x] : x \in InstallSpecs}
    \cup {[kind |-> "uninstall", spec |-> x] : x \in UninstallSpecs}
    \cup {[kind |-> "step", step |-> [paster |-> p]] : p \in PasterDicts}
    \cup {[kind |-> "step", step |-> EmptyDict]}

\* The list of steps made of the first n of `items`: a whole step stands as it
\* is; a spec joins the list of the step before it when that step is a list of
\* its kind and brk[n] does not ask for a new step, and opens a step otherwise.
RECURSIVE PlanOf(_, _, _)
PlanOf(items, brk, n) ==
    IF n = 0 THEN <<>>
    ELSE LET prev == PlanOf(items, brk, n - 1)
             it   == items[n]
         IN IF it.kind = "step" THEN Append(prev, it.step)
            ELSE IF n > 1 /\ items[n - 1].kind = it.kind /\ ~brk[n]
            THEN [prev EXCEPT ![Len(prev)] =
                    IF it.kind = "install"
                    THEN [install |-> Append(@.install, it.spec)]
                    ELSE [uninstall |-> Append(@.uninstall, it.spec)]]
            ELSE Append(prev, IF it.kind = "install"
                              THEN [install |-> <<it.spec>>]
                              ELSE [uninstall |-> <<it.spec>>])

---------------------------------------------------------------------------
(* validation_msg *)

\* The orders a mapping's items() can come in: the errors are a plain dict,
\* whose order of iteration the interpreter chooses.
RECURSIVE Orders(_)
Orders(keys) ==
    IF keys = {} THEN {<<>>}
    ELSE UNION {{<<k>> \o ks : ks \in Orders(keys \ {k})} : k \in keys}

\* _validation_msg(errors), lines 273-282: the texts it can append to
\* field_errors, one for each order of the mappings' items.  A mapping
\* appends "<key>." and then what its value appends, key after key; a list
\* appends what its elements append; a leaf appends itself in quotes.
RECURSIVE _validation_msg(_), DictInOrder(_, _), ListInOrder(_)
_validation_msg(errs) ==
    IF errs.type = "dict"
    THEN UNION {DictInOrder(errs.val, ks) : ks \in Orders(DOMAIN errs.val)}
    ELSE IF errs.type = "list" THEN ListInOrder(errs.val)
    ELSE {<<"\"">> \o errs.val \o <<"\"">>}

DictInOrder(d, ks) ==
    IF ks = <<>> THEN {<<>>}
    ELSE {<<Head(ks), ".">> \o a \o b :
             a \in _validation_msg(d[Head(ks)]), b \in DictInOrder(d, Tail(ks))}

ListInOrder(l) ==
    IF l = <<>> THEN {<<>>}
    ELSE {a \o b : a \in _validation_msg(Head(l)), b \in ListInOrder(Tail(l))}

\* validation_msg(path, errors), lines 271-288: the messages it can return.
validation_msg(path, errs) ==
    {<<"Validation error(s) in ">> \o path \o <<": ">> \o t :
        t \in _validation_msg(errs)}

---------------------------------------------------------------------------
(* Initial state: main() entered, nothing loaded *)

Init ==
    /\ pc = "main"
    /\ dry_run \in BOOLEAN
    /\ config = EmptyDict
    /\ deployment = EmptyDict
    /\ errors = Bool(FALSE)
    /\ uid = -1
    /\ gid = -1
    /\ op = 0
    /\ idx = 0
    /\ calls = <<>>
    /\ events = <<>>
    /\ raised = "none"
    /\ message = <<>>
    /\ proc = [uid |-> 0, gid |-> 0]

\* main(), lines 143-147: load and validate the configuration document.
MainConfig ==
    /\ pc = "main"
    /\ \E doc \in ConfigDocs :
        LET r == validate_config(doc)
        IN /\ config' = r.doc
           /\ errors' = r.errors
           /\ IF Truthy(r.errors)
              THEN /\ pc' = "error"
                   /\ raised' = "ClickException"
                   /\ message' \in validation_msg(<<"configuration file">>,
                                                  r.errors)
              ELSE pc' = "config_valid" /\ raised' = raised /\ message' = message
    /\ UNCHANGED <<dry_run, deployment, uid, gid, op, idx, calls, events, proc>>

\* main(), lines 149-152: load and validate the deployment document: a
\* document of at most MaxCmds items, or the document with no 'deployment' key.
MainDeployment ==
    /\ pc = "config_valid"
    /\ \E n \in 0..MaxCmds, nokey \in BOOLEAN :
       \E items \in [1..n -> Items], brk \in [1..n -> BOOLEAN] :
        LET doc == IF nokey THEN EmptyDict
                   ELSE [deployment |-> PlanOf(items, brk, n)]
            r   == validate_deployment(doc)
        IN /\ nokey => n = 0
           /\ deployment' = r.doc
           /\ errors' = r.errors
           /\ IF Truthy(r.errors)
              THEN /\ pc' = "error"
                   /\ raised' = "ClickException"
                   /\ message' \in validation_msg(<<"deployment file">>,
                                                  r.errors)
              ELSE pc' = "deployment_valid" /\ raised' = raised
                   /\ message' = message
    /\ UNCHANGED <<dry_run, config, uid, gid, op, idx, calls, events, proc>>

---------------------------------------------------------------------------
(* Deployer: the command builders *)

\* What a builder gives: a command (a list of strings), or the exception
\* that reading a missing key raises.
Return(cmd) == [raised |-> "none", cmd |-> cmd]
Raise(exc) == [raised |-> exc, cmd |-> <<>>]

\* Get with the default not used: a key left out reads as false.
Get_NoDefault(d, key, default) == IF key \in DOMAIN d THEN d[key].val ELSE FALSE

\* dict.get(key, default) of a scalar.
Get(d, key, default) == IF key \in DOMAIN d THEN d[key].val ELSE default

_name == config.name.val
_user == config.user.val
_group == config.group.val

\* os.path.join(virtualenv, 'bin', cmd), for a virtualenv that does not end
\* with a slash.
_virtualenv_cmd(cmd) == config.virtualenv.val \o <<"/", "bin", "/">> \o cmd

\* _restart with the configured string handed on whole.
_restart_Unsplit == <<config.restart.val>>

_restart == Split(config.restart.val)

\* "{src}@{tag}#egg={name}".format(**pip)
_pip_requirement(pip) ==
    IF {"src", "tag", "name"} \subseteq DOMAIN pip
    THEN Return(pip.src.val \o <<"@">> \o pip.tag.val \o <<"#egg=">> \o pip.name.val)
    ELSE Raise("KeyError")

_pip_install_src(pip) ==
    LET req == _pip_requirement(pip)
    IN IF req.raised # "none" THEN Raise(req.raised)
       ELSE Return(<< _virtualenv_cmd(<<"pip">>), <<"install">>, <<"-U">>,
                      <<"-e">>, req.cmd >>)

_pip_install_package(pip) ==
    IF {"name", "version"} \subseteq DOMAIN pip
    THEN Return(<< _virtualenv_cmd(<<"pip">>), <<"install">>, <<"-U">>,
                   pip.name.val \o <<"==">> \o pip.version.val >>)
    ELSE Raise("KeyError")

\* _pip_install choosing by 'version': a spec that holds a version is built
\* as a pinned install.
_pip_install_ByVersion(pip) ==
    IF "version" \in DOMAIN pip THEN _pip_install_package(pip)
    ELSE _pip_install_src(pip)

_pip_install(pip) ==
    IF "src" \in DOMAIN pip THEN _pip_install_src(pip)
    ELSE _pip_install_package(pip)

_pip_uninstall(pip) ==
    IF "name" \in DOMAIN pip
    THEN Return(<< _virtualenv_cmd(<<"pip">>), <<"uninstall">>, pip.name.val >>)
    ELSE Raise("KeyError")

_paster_cmd(paster) ==
    IF {"plugin", "command"} \subseteq DOMAIN paster
    THEN Return(<< _virtualenv_cmd(<<"paster">>), <<"--plugin">>, paster.plugin.val >>
                \o Split(paster.command.val)
                \o << <<"--config">>, config.config.val >>)
    ELSE Raise("KeyError")

---------------------------------------------------------------------------
(* Deployer._execute *)

\* user_changer with the two calls in the other order.
user_changer_UserFirst(u, g) ==
    << [sys |-> "setuid", id |-> u], [sys |-> "setgid", id |-> g] >>

\* user_changer(uid, gid): what the child does between fork and exec.
user_changer(u, g) ==
    << [sys |-> "setgid", id |-> g], [sys |-> "setuid", id |-> u] >>

\* The identity of the calling process once check_output has forked:
\* preexec_fn is handed over and called in the child only (lines 67-68), so
\* the caller keeps its own.
AfterFork(parent, preexec_fn) == parent

\* How a child can end: it runs the program and exits with status 0 or 1, or
\* it cannot be started: the program is not there, or the system refuses the
\* change of group or of user (only a child that changes identity).
Outcomes(dry, root) ==
    IF dry THEN {"not_spawned"}
    ELSE {"exit0", "exit1", "exec_fails"}
         \cup (IF root THEN {} ELSE {"setgid_fails", "setuid_fails"})

\* The calls of preexec_fn a child makes when the system refuses `sys`: those
\* up to the refused one, which raises.
UpTo(preexec_fn, sys) ==
    SubSeq(preexec_fn, 1,
           CHOOSE k \in 1..Len(preexec_fn) :
              /\ preexec_fn[k].sys = sys
              /\ \A j \in 1..k - 1 : preexec_fn[j].sys # sys)

\* subprocess.check_output(cmd, stderr=STDOUT[, preexec_fn=...]): the child
\* is forked, makes the system calls of preexec_fn up to the first one refused,
\* runs the program and, once it has exited, check_output returns or raises.
check_output(cmd, preexec_fn, outcome) ==
    LET started == outcome \in {"exit0", "exit1"}
        spawn   == [ev      |-> "spawn",
                    argv    |-> cmd,
                    preexec |-> IF outcome = "setgid_fails"
                                THEN UpTo(preexec_fn, "setgid")
                                ELSE IF outcome = "setuid_fails"
                                THEN UpTo(preexec_fn, "setuid")
                                ELSE preexec_fn,
                    started |-> started]
    IN IF started
       THEN <<spawn, [ev |-> "exit",
                      returncode |-> IF outcome = "exit0" THEN 0 ELSE 1]>>
       ELSE <<spawn>>

\* Propagate with `if fail_on_error: raise` left out: a non-zero exit never
\* leaves _execute.
Propagate_Swallow(outcome, fail_on_error) ==
    IF outcome \in {"exit0", "exit1"} THEN "none" ELSE "OSError"

\* Propagate with a bare `raise`: a non-zero exit always leaves _execute.
Propagate_AlwaysRaise(outcome, fail_on_error) ==
    IF outcome = "exit0" THEN "none"
    ELSE IF outcome = "exit1" THEN "CalledProcessError"
    ELSE "OSError"

\* Propagate with `if fail_on_error: raise` in the second except clause too.
Propagate_SpawnHonoursFlag(outcome, fail_on_error) ==
    IF outcome = "exit0" THEN "none"
    ELSE IF ~fail_on_error THEN "none"
    ELSE IF outcome = "exit1" THEN "CalledProcessError"
    ELSE "OSError"

\* The except clauses of _execute, lines 70-77: the exception that leaves
\* _execute when the child ended as `outcome`.
Propagate(outcome, fail_on_error) ==
    IF outcome = "exit0" THEN "none"
    ELSE IF outcome = "exit1"
         THEN IF fail_on_error THEN "CalledProcessError" ELSE "none"
    ELSE "OSError"

\* What _execute logs and prints once check_output has returned or raised,
\* lines 69-76.
Report(cmd, outcome) ==
    IF outcome = "exit0" THEN <<[ev |-> "print", text |-> <<"output">>]>>
    ELSE IF outcome = "exit1"
         THEN << LogRecord("WARNING",
                           <<"Command ", "%s", " returned exit code ", "%d",
                             "\n", "%s">>,
                           <<Repr(cmd), <<"1">> >>),
                 [ev |-> "print", text |-> <<"output">>] >>
    ELSE << LogRecord("ERROR",
                      <<"Could not execute command '", "%s", "': ", "%s">>,
                      <<Join(cmd), <<outcome>> >>) >>

\* _execute with the label of the default identity on every line.
_execute_UserLabelOnly(cmd, dry, root, fail_on_error, outcome) ==
    LET prefix == IF dry THEN <<"DRY RUN: ">> ELSE <<>>
        user   == _user \o <<":">> \o _group
        info   == LogRecord("INFO", <<"%s", "(AS ", "%s", ") ", "%s">>,
                            <<prefix, user, Join(cmd)>>)
        preexec_fn == IF root THEN <<>> ELSE user_changer(uid, gid)
    IN IF dry THEN [events |-> <<info>>, raised |-> "none", proc |-> proc]
       ELSE [events |-> <<info>>
                        \o check_output(cmd, preexec_fn, outcome)
                        \o Report(cmd, outcome),
             raised |-> Propagate(outcome, fail_on_error),
             proc   |-> AfterFork(proc, preexec_fn)]

\* _execute with the dry-run line written from the list itself, as line 71
\* writes e.cmd.
_execute_DryRunRepr(cmd, dry, root, fail_on_error, outcome) ==
    LET prefix == IF dry THEN <<"DRY RUN: ">> ELSE <<>>
        user   == IF root THEN <<"root">> ELSE _user \o <<":">> \o _group
        info   == LogRecord("INFO", <<"%s", "(AS ", "%s", ") ", "%s">>,
                            <<prefix, user, IF dry THEN Repr(cmd) ELSE Join(cmd)>>)
        preexec_fn == IF root THEN <<>> ELSE user_changer(uid, gid)
    IN IF dry THEN [events |-> <<info>>, raised |-> "none", proc |-> proc]
       ELSE [events |-> <<info>>
                        \o check_output(cmd, preexec_fn, outcome)
                        \o Report(cmd, outcome),
             raised |-> Propagate(outcome, fail_on_error),
             proc   |-> AfterFork(proc, preexec_fn)]

\* Deployer._execute(cmd, dry_run, root, fail_on_error), lines 49-77, on a
\* child that ends as `outcome`: the events in order, the exception that
\* leaves the method, if one does, and the identity of the process after it.
_execute(cmd, dry, root, fail_on_error, outcome) ==
    LET prefix == IF dry THEN <<"DRY RUN: ">> ELSE <<>>
        user   == IF root THEN <<"root">> ELSE _user \o <<":">> \o _group
        info   == LogRecord("INFO", <<"%s", "(AS ", "%s", ") ", "%s">>,
                            <<prefix, user, Join(cmd)>>)
        preexec_fn == IF root THEN <<>> ELSE user_changer(uid, gid)
    IN IF dry THEN [events |-> <<info>>, raised |-> "none", proc |-> proc]
       ELSE [events |-> <<info>>
                        \o check_output(cmd, preexec_fn, outcome)
                        \o Report(cmd, outcome),
             raised |-> Propagate(outcome, fail_on_error),
             proc   |-> AfterFork(proc, preexec_fn)]

---------------------------------------------------------------------------
(* main's deploy(), Deployer.__init__ and Deployer.execute *)

\* Deploy with the names looked up when first used: construction never fails.
Deploy_LookupDeferred ==
    /\ pc = "deployment_valid"
    /\ \E pw \in {-1, 1001}, gr \in {-1, 2002} :
          uid' = pw /\ gid' = gr /\ pc' = "deployer" /\ raised' = raised
    /\ UNCHANGED <<dry_run, config, deployment, errors, op, idx, calls, events, message, proc>>

\* deploy(), line 156, and Deployer.__init__: look the user, then the group,
\* up; pwd.getpwnam and grp.getgrnam raise KeyError for a name not known.
Deploy ==
    /\ pc = "deployment_valid"
    /\ \E pw \in {-1, 1001}, gr \in {-1, 2002} :
          IF pw = -1
          THEN uid' = uid /\ gid' = gid /\ pc' = "error" /\ raised' = "KeyError"
          ELSE IF gr = -1
          THEN uid' = pw /\ gid' = gid /\ pc' = "error" /\ raised' = "KeyError"
          ELSE uid' = pw /\ gid' = gr /\ pc' = "deployer" /\ raised' = raised
    /\ UNCHANGED <<dry_run, config, deployment, errors, op, idx, calls, events, message, proc>>

\* NextPos with the inner loops left after their first spec.
RECURSIVE NextPos_FirstOnly(_, _, _)
NextPos_FirstOnly(plan, o, i) ==
    IF o > Len(plan) THEN <<Len(plan) + 1, 1>>
    ELSE IF i = 1 /\ "install" \in DOMAIN plan[o] /\ plan[o].install # <<>>
         THEN <<o, 1>>
    ELSE IF i = 1 /\ "uninstall" \in DOMAIN plan[o] /\ plan[o].uninstall # <<>>
         THEN <<o, 1>>
    ELSE IF i = 1 /\ "paster" \in DOMAIN plan[o] THEN <<o, 1>>
    ELSE NextPos_FirstOnly(plan, o + 1, 1)

\* The loops of execute, lines 33-44: the first place at or after (o, i) where
\* a command is to be run; <<Len(plan) + 1, 1>> when the loops are over.  A
\* step with none of the three keys runs nothing.
RECURSIVE NextPos(_, _, _)
NextPos(plan, o, i) ==
    IF o > Len(plan) THEN <<Len(plan) + 1, 1>>
    ELSE IF "install" \in DOMAIN plan[o]
         THEN IF i <= Len(plan[o].install) THEN <<o, i>>
              ELSE NextPos(plan, o + 1, 1)
    ELSE IF "uninstall" \in DOMAIN plan[o]
         THEN IF i <= Len(plan[o].uninstall) THEN <<o, i>>
              ELSE NextPos(plan, o + 1, 1)
    ELSE IF "paster" \in DOMAIN plan[o]
         THEN IF i <= 1 THEN <<o, i>> ELSE NextPos(plan, o + 1, 1)
    ELSE NextPos(plan, o + 1, 1)

\* Which branch of execute's dispatch, lines 34-42, a step takes.
Dispatch(step) ==
    IF "install" \in DOMAIN step THEN "install"
    ELSE IF "uninstall" \in DOMAIN step THEN "uninstall"
    ELSE IF "paster" \in DOMAIN step THEN "paster"
    ELSE "none"

\* deploy(), line 157, and the head of execute, lines 32-33: log the name,
\* then read the list of operations.
ExecuteBegin ==
    /\ pc = "deployer"
    /\ events' = Append(events,
                        [call |-> 0]
                        @@ LogRecord("INFO", <<"Deploying to ", "%s">>, <<_name>>))
    /\ IF "deployment" \notin DOMAIN deployment
       THEN pc' = "error" /\ raised' = "KeyError" /\ UNCHANGED <<op, idx>>
       ELSE LET pos == NextPos(deployment.deployment, 1, 1)
            IN pc' = "execute" /\ raised' = raised /\ op' = pos[1] /\ idx' = pos[2]
    /\ UNCHANGED <<dry_run, config, deployment, errors, uid, gid, calls, message, proc>>

\* One command of execute: build it, hand it to _execute, and go on to the
\* next place of the loops, or leave with the exception raised.
RunCommand(kind, built, root, fail_on_error, next, after) ==
    IF built.raised # "none"
    THEN /\ pc' = "error"
         /\ raised' = built.raised
         /\ UNCHANGED <<op, idx, calls, events, proc>>
    ELSE \E outcome \in Outcomes(dry_run, root) :
           LET n == Len(calls) + 1
               r == _execute(built.cmd, dry_run, root, fail_on_error, outcome)
           IN /\ calls' = Append(calls,
                     [kind |-> kind, op |-> op, idx |-> idx, cmd |-> built.cmd,
                      root |-> root, fail_on_error |-> fail_on_error])
              /\ events' = events \o [k \in 1..Len(r.events) |->
                                         [call |-> n] @@ r.events[k]]
              /\ proc' = r.proc
              /\ IF r.raised # "none"
                 THEN pc' = "error" /\ raised' = r.raised /\ UNCHANGED <<op, idx>>
                 ELSE pc' = after /\ raised' = raised
                      /\ op' = next[1] /\ idx' = next[2]

\* execute, lines 35-37: one spec of an install operation.
ExecuteInstall ==
    /\ pc = "execute"
    /\ op <= Len(deployment.deployment)
    /\ Dispatch(deployment.deployment[op]) = "install"
    /\ LET install == deployment.deployment[op].install[idx]
       IN RunCommand("install", _pip_install(install), FALSE,
                     Get(install, "fail_on_error", TRUE),
                     NextPos(deployment.deployment, op, idx + 1), "execute")
    /\ UNCHANGED <<dry_run, config, deployment, errors, uid, gid, message>>

\* execute, lines 39-41: one spec of an uninstall operation.
ExecuteUninstall ==
    /\ pc = "execute"
    /\ op <= Len(deployment.deployment)
    /\ Dispatch(deployment.deployment[op]) = "uninstall"
    /\ LET uninstall == deployment.deployment[op].uninstall[idx]
       IN RunCommand("uninstall", _pip_uninstall(uninstall), FALSE,
                     Get(uninstall, "fail_on_error", TRUE),
                     NextPos(deployment.deployment, op, idx + 1), "execute")
    /\ UNCHANGED <<dry_run, config, deployment, errors, uid, gid, message>>

\* ExecutePaster with fail_on_error=False handed to _execute.
ExecutePaster_NoAbort ==
    /\ pc = "execute"
    /\ op <= Len(deployment.deployment)
    /\ Dispatch(deployment.deployment[op]) = "paster"
    /\ RunCommand("paster", _paster_cmd(deployment.deployment[op].paster), FALSE,
                  FALSE, NextPos(deployment.deployment, op, idx + 1), "execute")
    /\ UNCHANGED <<dry_run, config, deployment, errors, uid, gid, message>>

\* execute, lines 42-44: a paster operation; fail_on_error is the default.
ExecutePaster ==
    /\ pc = "execute"
    /\ op <= Len(deployment.deployment)
    /\ Dispatch(deployment.deployment[op]) = "paster"
    /\ RunCommand("paster", _paster_cmd(deployment.deployment[op].paster), FALSE,
                  TRUE, NextPos(deployment.deployment, op, idx + 1), "execute")
    /\ UNCHANGED <<dry_run, config, deployment, errors, uid, gid, message>>

\* ExecuteRestart with root left at its default.
ExecuteRestart_AsUser ==
    /\ pc = "execute"
    /\ op > Len(deployment.deployment)
    /\ RunCommand("restart", Return(_restart), FALSE, TRUE, <<op, idx>>, "done")
    /\ UNCHANGED <<dry_run, config, deployment, errors, uid, gid, message>>

\* execute, lines 46-47: the restart command, after the loops; root=True,
\* fail_on_error the default.
ExecuteRestart ==
    /\ pc = "execute"
    /\ op > Len(deployment.deployment)
    /\ RunCommand("restart", Return(_restart), TRUE, TRUE, <<op, idx>>, "done")
    /\ UNCHANGED <<dry_run, config, deployment, errors, uid, gid, message>>

Next ==
    \/ MainConfig
    \/ MainDeployment
    \/ Deploy
    \/ ExecuteBegin
    \/ ExecuteInstall
    \/ ExecuteUninstall
    \/ ExecutePaster
    \/ ExecuteRestart

Spec == Init /\ [][Next]_vars

\* The commands of execute.
ExecuteStep ==
    ExecuteInstall \/ ExecuteUninstall \/ ExecutePaster \/ ExecuteRestart

---------------------------------------------------------------------------
(* What the properties speak of *)

\* The list of operations of the loaded deployment document.
Plan == IF "deployment" \in DOMAIN deployment THEN deployment.deployment ELSE <<>>

\* The deployment document has passed validate_deployment.
Validated ==
    \/ pc \in {"deployment_valid", "deployer", "execute", "done"}
    \/ pc = "error" /\ raised # "ClickException"

\* How many commands a step of a validated plan asks for.
StepCommands(step) ==
    IF "install" \in DOMAIN step THEN Len(step.install)
    ELSE IF "uninstall" \in DOMAIN step THEN Len(step.uninstall)
    ELSE IF "paster" \in DOMAIN step THEN 1
    ELSE 0

\* The places <<operation, index>> of a plan's commands: operations in
\* document order, specs in list order within an operation.
RECURSIVE FlatFrom(_, _)
FlatFrom(plan, o) ==
    IF o > Len(plan) THEN <<>>
    ELSE [i \in 1..StepCommands(plan[o]) |-> <<o, i>>] \o FlatFrom(plan, o + 1)

Flat == FlatFrom(Plan, 1)

\* The spec or paster mapping at a place of the plan.
SpecAt(pos) ==
    LET step == Plan[pos[1]]
    IN IF "install" \in DOMAIN step THEN step.install[pos[2]]
       ELSE IF "uninstall" \in DOMAIN step THEN step.uninstall[pos[2]]
       ELSE step.paster

\* The failure policy a spec states: its fail_on_error, true when left out.
Policy(spec) ==
    IF "fail_on_error" \in DOMAIN spec THEN spec.fail_on_error.val ELSE TRUE

\* The events of a given kind.
EventsOf(kind) == {i \in 1..Len(events) : events[i].ev = kind}

\* Call c spawned a child that ran and exited with a status other than 0.
ExitedNonZero(c) ==
    \E i \in EventsOf("exit") : events[i].call = c /\ events[i].returncode # 0

\* Call c spawned a child that could not be started.
SpawnFailed(c) ==
    \E i \in EventsOf("spawn") : events[i].call = c /\ ~events[i].started

\* Call c is a command of an install or uninstall spec.
IsSpecCall(c) == calls[c].kind \in {"install", "uninstall"}

\* The restart command has been handed to _execute.
RestartIssued == \E c \in 1..Len(calls) : calls[c].kind = "restart"

---------------------------------------------------------------------------
(* C1 *)

\* C1: in a run that is not a dry run, once the command of an install or
\* uninstall spec whose fail_on_error is true exits non-zero, execute is left
\* with CalledProcessError: that command is the last one handed to _execute,
\* its exit is the last a child makes, and the restart command is not issued.
C1_FailOnErrorAborts ==
    \A c \in 1..Len(calls) :
        (~dry_run /\ IsSpecCall(c) /\ ExitedNonZero(c)
            /\ Policy(SpecAt(<<calls[c].op, calls[c].idx>>)))
        => /\ pc = "error"
           /\ raised = "CalledProcessError"
           /\ c = Len(calls)
           /\ \A i \in EventsOf("spawn") : events[i].call <= c
           /\ ~RestartIssued

\* A failing install spec with fail_on_error: true, with commands of the plan
\* still to run after it.
C1_Witness ==
    /\ ~dry_run
    /\ \E c \in 1..Len(calls) :
          /\ calls[c].kind = "install"
          /\ ExitedNonZero(c)
          /\ "fail_on_error" \in DOMAIN SpecAt(<<calls[c].op, calls[c].idx>>)
          /\ Policy(SpecAt(<<calls[c].op, calls[c].idx>>))
          /\ c < Len(Flat)
    /\ pc = "error"

---------------------------------------------------------------------------
(* C2 *)

\* Call c is the command of a spec with fail_on_error: false that exited
\* non-zero in a run that is not a dry run.
SwallowedFailure(c) ==
    /\ ~dry_run
    /\ IsSpecCall(c)
    /\ ExitedNonZero(c)
    /\ ~Policy(SpecAt(<<calls[c].op, calls[c].idx>>))

\* The place execute is at once n commands of the plan have been run: that of
\* the next command in document order, or past the last operation, where the
\* restart command is run.
PlaceAfter(n) == IF n < Len(Flat) THEN Flat[n + 1] ELSE <<Len(Plan) + 1, 1>>

\* C2: a step in which the command of an install or uninstall spec with
\* fail_on_error: false exits non-zero raises nothing and leaves execute at
\* the next spec of the same operation, or else at the next operation that has
\* a command, or else at the restart.  From there the run reaches the restart
\* unless something else ends it: while execute has neither returned nor
\* raised it has a command to run; a command that does not end it moves it one
\* place on in the plan; and it returns only once the restart is issued.
C2_FailureSwallowed ==
    /\ [][\A n \in {Len(calls) + 1} :
            /\ (Len(calls') = n /\ SwallowedFailure(n)')
                  => pc' = "execute" /\ raised' = "none"
            /\ (pc = "execute" /\ pc' = "execute")
                  => Len(calls') = n /\ <<op', idx'>> = PlaceAfter(n)]_vars
    /\ [](pc = "execute" => ENABLED ExecuteStep)
    /\ [](pc = "done" => RestartIssued)

\* A failure swallowed at the first spec of an operation, after which the
\* second spec of that operation, the operation after it and the restart ran.
C2_Witness ==
    /\ pc = "done"
    /\ Len(calls) = 4
    /\ SwallowedFailure(1)
    /\ calls[2].op = calls[1].op
    /\ calls[3].op > calls[2].op
    /\ calls[4].kind = "restart"

---------------------------------------------------------------------------
(* C3 *)

\* The last event of call c is the last event of the run.
LastEventOf(c) == events # <<>> /\ events[Len(events)].call = c

\* C3: execute returns only after the restart command; the restart command
\* is handed to _execute once all commands of the plan have been, as the last
\* command of the run, as the configured string cut at its spaces, with
\* root=True and fail_on_error true; its child is given no change of
\* identity, and when it exits non-zero execute raises.  With the loops over
\* and nothing raised, the restart is the command that runs.
C3_RestartLast ==
    /\ pc = "done" => RestartIssued
    /\ (pc = "execute" /\ op > Len(Plan)) => ENABLED ExecuteRestart
    /\ \A c \in 1..Len(calls) :
          calls[c].kind = "restart"
          => /\ c = Len(calls)
             /\ c = Len(Flat) + 1
             /\ LastEventOf(c)
             /\ calls[c].cmd = << <<"svc">>, <<"restart">>, <<"site">> >>
             /\ calls[c].root
             /\ calls[c].fail_on_error
             /\ \A i \in EventsOf("spawn") :
                   events[i].call = c => events[i].preexec = <<>>
             /\ Cardinality({i \in EventsOf("spawn") : events[i].call = c})
                   = IF dry_run THEN 0 ELSE 1
             /\ ExitedNonZero(c) => pc = "error" /\ raised = "CalledProcessError"
             /\ pc \in {"done", "error"}

\* A run of a plan with no operation, not a dry run, that returned.
C3_Witness ==
    /\ pc = "done"
    /\ ~dry_run
    /\ "deployment" \in DOMAIN deployment
    /\ Plan = <<>>
    /\ Len(calls) = 1
    /\ calls[1].kind = "restart"

---------------------------------------------------------------------------
(* C4 *)

\* The log records of the commands: those _execute wrote.
CommandLines == {i \in EventsOf("log") : events[i].call > 0 /\ events[i].level = "INFO"}

\* C4: in a dry run of a plan that validate_deployment accepted, execute
\* spawns no child, raises nothing, logs only lines that begin with
\* "DRY RUN: ", one per command, and when it has returned it has logged as
\* many lines as the plan has install specs, uninstall specs and paster
\* steps, and one for the restart.
C4_DryRunSimulatesAll ==
    (dry_run /\ Validated /\ "deployment" \in DOMAIN deployment /\ events # <<>>)
    => /\ EventsOf("spawn") = {}
       /\ pc # "error"
       /\ \A i \in 1..Len(events) :
             events[i].call > 0
             => events[i].ev = "log" /\ Head(events[i].msg) = "DRY RUN: "
       /\ Cardinality(CommandLines) = Len(calls)
       /\ pc = "done" => Len(calls) = Len(Flat) + 1

---------------------------------------------------------------------------
(* C5 *)

\* C5: once a child cannot be started, whatever the fail_on_error of its
\* command, _execute has logged the error as its last record and execute is
\* left with the exception: that command is the last one handed to _execute
\* and no child is spawned after it.
C5_SpawnFailureAborts ==
    \A c \in 1..Len(calls) :
        SpawnFailed(c)
        => /\ pc = "error"
           /\ raised = "OSError"
           /\ c = Len(calls)
           /\ \A i \in EventsOf("spawn") : events[i].call <= c
           /\ LastEventOf(c)
           /\ events[Len(events)].ev = "log"
           /\ events[Len(events)].level = "ERROR"

\* A child that could not be started for a spec with fail_on_error: false,
\* with commands of the plan still to run after it.
C5_Witness ==
    \E c \in 1..Len(calls) :
        /\ SpawnFailed(c)
        /\ IsSpecCall(c)
        /\ ~Policy(SpecAt(<<calls[c].op, calls[c].idx>>))
        /\ c < Len(Flat)

---------------------------------------------------------------------------
(* C6 *)

\* C6: the command of a paster step is handed to _execute with root false and
\* fail_on_error true; its child changes to the gid and uid looked up for the
\* configured group and user; when it exits non-zero execute raises and runs
\* no further command; and no paster step of an accepted plan holds a
\* fail_on_error of its own.
C6_PasterAlwaysAborts ==
    /\ \A c \in 1..Len(calls) :
          calls[c].kind = "paster"
          => /\ ~calls[c].root
             /\ calls[c].fail_on_error
             /\ \A i \in EventsOf("spawn") :
                   events[i].call = c
                   => /\ events[i].preexec # <<>>
                      /\ events[i].preexec[1] = [sys |-> "setgid", id |-> gid]
                      /\ events[i].started
                            => events[i].preexec
                                 = << [sys |-> "setgid", id |-> gid],
                                      [sys |-> "setuid", id |-> uid] >>
             /\ ExitedNonZero(c)
                   => /\ pc = "error"
                      /\ raised = "CalledProcessError"
                      /\ c = Len(calls)
    /\ Validated =>
          \A o \in 1..Len(Plan) :
              "paster" \in DOMAIN Plan[o]
              => "fail_on_error" \notin DOMAIN Plan[o].paster

\* A paster command that exited non-zero, with commands of the plan still to
\* run after it.
C6_Witness ==
    /\ pc = "error"
    /\ \E c \in 1..Len(calls) :
          calls[c].kind = "paster" /\ ExitedNonZero(c) /\ c < Len(Flat)

---------------------------------------------------------------------------
(* C7 *)

\* The command execute builds for a place of the plan.
CommandAt(pos) ==
    LET kind == Dispatch(Plan[pos[1]])
    IN IF kind = "install" THEN _pip_install(SpecAt(pos)).cmd
       ELSE IF kind = "uninstall" THEN _pip_uninstall(SpecAt(pos)).cmd
       ELSE _paster_cmd(SpecAt(pos)).cmd

\* C7: the commands handed to _execute are, in order, the commands of the
\* first places of the plan in document order, the restart coming only after
\* all of them; none is handed over twice; the events of a command follow
\* those of the command before it; outside a dry run every command spawns one
\* child, and a child that was started has exited before anything else
\* happens.
C7_PlanOrder ==
    /\ Len(calls) <= Len(Flat) + 1
    /\ \A c \in 1..Len(calls) :
          IF c <= Len(Flat)
          THEN /\ <<calls[c].op, calls[c].idx>> = Flat[c]
               /\ calls[c].kind = Dispatch(Plan[Flat[c][1]])
               /\ calls[c].cmd = CommandAt(Flat[c])
          ELSE calls[c].kind = "restart"
    /\ \A i \in 1..Len(events) - 1 : events[i].call <= events[i + 1].call
    /\ \A c \in 1..Len(calls) :
          Cardinality({i \in EventsOf("spawn") : events[i].call = c})
             = IF dry_run THEN 0 ELSE 1
    /\ \A i \in EventsOf("spawn") :
          /\ events[i].argv = calls[events[i].call].cmd
          /\ events[i].started
                => /\ i < Len(events)
                   /\ events[i + 1].ev = "exit"
                   /\ events[i + 1].call = events[i].call
    /\ pc = "done" => Len(calls) = Len(Flat) + 1

\* A run that is not a dry run, of a plan of two operations and three
\* commands, that returned.
C7_Witness ==
    /\ pc = "done"
    /\ ~dry_run
    /\ Len(Plan) = 2
    /\ Len(Flat) = 3
    /\ Len(calls) = 4

---------------------------------------------------------------------------
(* C8 *)

\* The required keys a loaded configuration document lacks.
MissingFields == ConfigFields \ DOMAIN config

\* C8: once main() has loaded a configuration document that lacks any of the
\* six required keys, the error tree of validate_config holds every missing
\* key with the message "required field", main() has raised, and nothing
\* else has happened: no deployment document loaded, no identity looked up,
\* no command built, logged or run.
C8_MissingConfigFields ==
    (pc # "main" /\ MissingFields # {})
    => /\ Truthy(errors)
       /\ \A f \in MissingFields :
             /\ f \in DOMAIN errors.val
             /\ errors.val[f] = ErrList(<<Str(<<"required field">>)>>)
       /\ pc = "error"
       /\ raised = "ClickException"
       /\ deployment = EmptyDict
       /\ uid = -1 /\ gid = -1
       /\ calls = <<>>
       /\ events = <<>>

\* A configuration document that lacks two required keys, 'group' among them.
C8_Witness ==
    /\ pc = "error"
    /\ Cardinality(MissingFields) = 2
    /\ "group" \in MissingFields

---------------------------------------------------------------------------
(* C9 *)

\* The keys execute dispatches on.
OperationKeys == {"install", "uninstall", "paster"}

\* C9: when a step of the loaded deployment document validates against none
\* or against more than one of the three operation schemas, validate_deployment
\* gives an error tree under 'deployment', main() raises, and nothing of the
\* deployment happens; and every step of an accepted document validates
\* against exactly one schema and holds exactly one key, one of install,
\* uninstall and paster, so that exactly one branch of execute's dispatch is
\* taken for it.
C9_ExactlyOneSchema ==
    /\ (\E o \in 1..Len(Plan) : MatchCount(Plan[o]) # 1)
       => /\ pc = "error"
          /\ raised = "ClickException"
          /\ Truthy(errors)
          /\ "deployment" \in DOMAIN errors.val
          /\ uid = -1 /\ gid = -1
          /\ calls = <<>>
          /\ events = <<>>
    /\ Validated
       => \A o \in 1..Len(Plan) :
             /\ MatchCount(Plan[o]) = 1
             /\ Cardinality(DOMAIN Plan[o]) = 1
             /\ DOMAIN Plan[o] \subseteq OperationKeys
             /\ Dispatch(Plan[o]) \in OperationKeys

\* A rejected document with a step that validates against all three schemas
\* (a step with no key) and a step that validates against none.
C9_Witness ==
    /\ pc = "error"
    /\ \E o \in 1..Len(Plan) : MatchCount(Plan[o]) = 3
    /\ \E o \in 1..Len(Plan) : MatchCount(Plan[o]) = 0

---------------------------------------------------------------------------
(* C10 *)

\* C10: every install spec of an accepted plan holds src and tag, or version,
\* every paster step holds plugin and command, and no command builder raises
\* KeyError (the only KeyError of a run is that of the identity lookup, before
\* execute).
C10_ValidatedSpecsComplete ==
    /\ (Validated /\ "deployment" \in DOMAIN deployment)
       => \A o \in 1..Len(Plan) :
             /\ "install" \in DOMAIN Plan[o]
                => \A i \in 1..Len(Plan[o].install) :
                      \/ {"src", "tag"} \subseteq DOMAIN Plan[o].install[i]
                      \/ "version" \in DOMAIN Plan[o].install[i]
             /\ "paster" \in DOMAIN Plan[o]
                => {"plugin", "command"} \subseteq DOMAIN Plan[o].paster
    /\ ("deployment" \in DOMAIN deployment /\ raised = "KeyError")
       => events = <<>>

---------------------------------------------------------------------------
(* C11 *)

\* Deployer.__init__ has been entered and the user or the group was not found.
LookupFailed ==
    Validated /\ pc # "deployment_valid" /\ (uid = -1 \/ gid = -1)

\* C11: once the configured user or group is not found, in a dry run as in a
\* real one, the construction of the Deployer has raised and execute is never
\* entered: the run has ended with the exception, no command was handed to
\* _execute, and nothing was logged, spawned or printed; the group is not
\* looked up once the user was not found.
C11_IdentityFailureStopsAll ==
    LookupFailed
    => /\ pc = "error"
       /\ raised = "KeyError"
       /\ calls = <<>>
       /\ events = <<>>
       /\ uid = -1 => gid = -1

\* A dry run of an accepted plan with a command, in which the user was found
\* and the group was not.
C11_Witness ==
    /\ dry_run
    /\ LookupFailed
    /\ uid = 1001
    /\ gid = -1
    /\ Len(Flat) >= 1

---------------------------------------------------------------------------
(* C12 *)

\* C12: a command is handed to _execute with root=True exactly when it is the
\* restart command; a child is spawned with no change of identity exactly when
\* it is the child of the restart command; the child of every command of the
\* plan (install, uninstall, paster) is given the change to the gid and the
\* uid that were looked up for the configured group and user, and has made
\* both when the program starts.
C12_IdentityPerCommand ==
    /\ \A c \in 1..Len(calls) : calls[c].root <=> calls[c].kind = "restart"
    /\ \A i \in EventsOf("spawn") :
          LET c == events[i].call
          IN /\ events[i].preexec = <<>> <=> calls[c].kind = "restart"
             /\ calls[c].kind # "restart"
                => /\ uid = 1001 /\ gid = 2002
                   /\ events[i].preexec[1] = [sys |-> "setgid", id |-> 2002]
                   /\ events[i].started
                      => events[i].preexec
                            = << [sys |-> "setgid", id |-> 2002],
                                 [sys |-> "setuid", id |-> 1001] >>

\* A run that is not a dry run in which an install, an uninstall and a paster
\* command ran, and then the restart.
C12_Witness ==
    /\ pc = "done"
    /\ ~dry_run
    /\ {calls[c].kind : c \in 1..Len(calls)}
          = {"install", "uninstall", "paster", "restart"}
    /\ Cardinality(EventsOf("spawn")) = 4

---------------------------------------------------------------------------
(* C13 *)

\* A spec with fail_on_error: true written out.
WithTrue(spec) == [k \in DOMAIN spec \cup {"fail_on_error"} |->
                      IF k = "fail_on_error" THEN Bool(TRUE) ELSE spec[k]]

\* The command execute builds for a spec of the kind of call c.
BuiltFor(c, spec) ==
    IF calls[c].kind = "install" THEN _pip_install(spec) ELSE _pip_uninstall(spec)

\* C13: the command of an install or uninstall spec that leaves fail_on_error
\* out is handed to _execute with fail_on_error true; when it exits non-zero
\* execute is left with CalledProcessError, no further command and no restart
\* being run; and the spec with fail_on_error: true written out gives the same
\* command, the same events and the same exception, however the child ends.
C13_DefaultIsTrue ==
    \A c \in 1..Len(calls) :
        LET spec == SpecAt(<<calls[c].op, calls[c].idx>>)
        IN (IsSpecCall(c) /\ "fail_on_error" \notin DOMAIN spec)
           => /\ calls[c].fail_on_error
              /\ ExitedNonZero(c)
                 => /\ pc = "error"
                    /\ raised = "CalledProcessError"
                    /\ c = Len(calls)
                    /\ ~RestartIssued
              /\ BuiltFor(c, WithTrue(spec)) = Return(calls[c].cmd)
              /\ \A outcome \in Outcomes(dry_run, FALSE) :
                    _execute(calls[c].cmd, dry_run, FALSE,
                             Get(spec, "fail_on_error", TRUE), outcome)
                    = _execute(calls[c].cmd, dry_run, FALSE,
                               Get(WithTrue(spec), "fail_on_error", TRUE), outcome)

\* An install spec without fail_on_error whose command ran, and after it an
\* uninstall spec without fail_on_error whose command exited non-zero, with
\* the restart still to run.
C13_Witness ==
    /\ ~dry_run
    /\ Len(calls) = 2
    /\ calls[1].kind = "install"
    /\ "fail_on_error" \notin DOMAIN SpecAt(<<calls[1].op, calls[1].idx>>)
    /\ calls[2].kind = "uninstall"
    /\ "fail_on_error" \notin DOMAIN SpecAt(<<calls[2].op, calls[2].idx>>)
    /\ ExitedNonZero(2)
    /\ pc = "error"

---------------------------------------------------------------------------
(* C14 *)

\* <virtualenv>/bin/pip for the configuration drawn.
PipPath == <<"/opt/venv", "/", "bin", "/", "pip">>

\* C14: the command of an install spec is the source form exactly when the
\* spec holds src, whatever else it holds: <virtualenv>/bin/pip install -U -e
\* <src>@<tag>#egg=<name>; for a spec without src it is the pinned form:
\* <virtualenv>/bin/pip install -U <name>==<version>.  No command is of both
\* forms, and a spec that holds src and version is built as a source install.
C14_InstallForms ==
    \A c \in 1..Len(calls) :
        calls[c].kind = "install"
        => LET spec == SpecAt(<<calls[c].op, calls[c].idx>>)
               cmd  == calls[c].cmd
           IN /\ "src" \in DOMAIN spec
                 => /\ "tag" \in DOMAIN spec
                    /\ cmd = << PipPath, <<"install">>, <<"-U">>, <<"-e">>,
                                spec.src.val \o <<"@">> \o spec.tag.val
                                   \o <<"#egg=">> \o spec.name.val >>
              /\ "src" \notin DOMAIN spec
                 => /\ "version" \in DOMAIN spec
                    /\ cmd = << PipPath, <<"install">>, <<"-U">>,
                                spec.name.val \o <<"==">> \o spec.version.val >>
              /\ (Len(cmd) = 5 /\ cmd[4] = <<"-e">>) <=> "src" \in DOMAIN spec
              /\ Len(cmd) = 4 <=> "src" \notin DOMAIN spec

\* The command of a spec that holds src, tag and version, and after it the
\* command of a spec that holds a version and no src, both spawned.
C14_Witness ==
    /\ ~dry_run
    /\ Len(calls) >= 2
    /\ calls[1].kind = "install"
    /\ {"src", "tag", "version"} \subseteq DOMAIN SpecAt(<<calls[1].op, calls[1].idx>>)
    /\ calls[2].kind = "install"
    /\ "src" \notin DOMAIN SpecAt(<<calls[2].op, calls[2].idx>>)
    /\ Cardinality(EventsOf("spawn")) = 2

---------------------------------------------------------------------------
(* C15 *)

\* C15: the process that runs execute keeps the uid and gid it was started
\* with, whatever commands it runs and however they end; every child spawned
\* with root false makes its system calls in the order of user_changer: first
\* setgid to the gid looked up, then setuid to the uid looked up, never setuid
\* first and never anything else; and a child whose program has started has
\* made both calls before.
C15_GroupThenUserInChild ==
    /\ proc = [uid |-> 0, gid |-> 0]
    /\ \A i \in EventsOf("spawn") :
          ~calls[events[i].call].root
          => LET pre == events[i].preexec
             IN /\ Len(pre) \in {1, 2}
                /\ pre[1] = [sys |-> "setgid", id |-> gid]
                /\ Len(pre) = 2 => pre[2] = [sys |-> "setuid", id |-> uid]
                /\ events[i].started => Len(pre) = 2
                /\ gid = 2002 /\ uid = 1001

\* A child that changed its group and was refused the change of user, after a
\* child that changed both and ran its program.
C15_Witness ==
    /\ Len(calls) = 2
    /\ raised = "OSError"
    /\ \E i, j \in EventsOf("spawn") :
          /\ events[i].call = 1 /\ events[i].started
          /\ Len(events[i].preexec) = 2
          /\ events[j].call = 2 /\ ~events[j].started
          /\ Len(events[j].preexec) = 2
    /\ LET msg == events[Len(events)].msg IN msg[Len(msg)] = "setuid_fails"
    /\ proc = [uid |-> 0, gid |-> 0]

---------------------------------------------------------------------------
(* C16 *)

\* The atoms of a string.
Atoms(s) == {s[k] : k \in 1..Len(s)}

\* A log message names a command and an exit code: it holds every word of
\* the command, and the code.
NamesFailure(msg, cmd, code) ==
    /\ \A t \in 1..Len(cmd) : Atoms(cmd[t]) \subseteq Atoms(msg)
    /\ code \in Atoms(msg)

\* C16: whenever a child has exited non-zero, whatever the fail_on_error of
\* its command, the log holds a WARNING record of that command which names
\* the command and the exit code, written after the exit, and the output of
\* the child is printed after it.
C16_FailureWarned ==
    \A c \in 1..Len(calls) :
        ExitedNonZero(c)
        => \E i \in EventsOf("log"), j \in EventsOf("print") :
              /\ events[i].call = c
              /\ events[j].call = c
              /\ events[i].level = "WARNING"
              /\ NamesFailure(events[i].msg, calls[c].cmd, "1")
              /\ events[i - 1].ev = "exit"
              /\ i < j

---------------------------------------------------------------------------
(* C17 *)

\* The identity label of a log line of _execute for the configuration drawn.
RootLabel == <<"root">>
UserLabel == <<"deploy", ":", "www">>

\* The line _execute logs for a command under a label.
CommandLine(label, cmd) ==
    (IF dry_run THEN <<"DRY RUN: ">> ELSE <<>>)
    \o <<"(AS ">> \o label \o <<") ">> \o Join(cmd)

\* C17: in a dry run and in a real run, the first thing every call of
\* _execute does is log the line of its command at INFO, before the child, if
\* there is one, is spawned; the line carries "root" exactly when the command
\* is run with root true, its child being given no change of identity, and
\* "<user>:<group>" of the configuration exactly when it is run with root
\* false, its child being given the change to the ids looked up for them.
C17_LoggedBeforeSpawn ==
    \A c \in 1..Len(calls) :
        \E i \in 1..Len(events) :
           /\ events[i].call = c
           /\ events[i - 1].call < c
           /\ events[i].ev = "log"
           /\ events[i].level = "INFO"
           /\ events[i].msg \in {CommandLine(RootLabel, calls[c].cmd),
                                 CommandLine(UserLabel, calls[c].cmd)}
           /\ events[i].msg = CommandLine(RootLabel, calls[c].cmd)
                 <=> calls[c].root
           /\ \A j \in EventsOf("spawn") :
                 events[j].call = c
                 => /\ j > i
                    /\ events[i].msg = CommandLine(RootLabel, calls[c].cmd)
                          <=> events[j].preexec = <<>>
                    /\ events[i].msg = CommandLine(UserLabel, calls[c].cmd)
                          <=> /\ events[j].preexec # <<>>
                              /\ events[j].preexec[1].id = gid
                              /\ config.user.val \o <<":">> \o config.group.val
                                    = UserLabel

\* A dry run that returned after the lines of a command of the plan and of
\* the restart.
C17_Witness ==
    /\ dry_run
    /\ pc = "done"
    /\ Len(calls) = 2
    /\ events[2].msg = CommandLine(UserLabel, calls[1].cmd)
    /\ events[3].msg = CommandLine(RootLabel, calls[2].cmd)

---------------------------------------------------------------------------
(* C18 *)

\* An error tree rendered path by path: every leaf in quotes after the
\* "<key>." segments of all the mappings above it, `chain`; the leaves in
\* depth-first order, the items of a mapping in one of their orders.
RECURSIVE PathTexts(_, _), DictPaths(_, _, _), ListPaths(_, _)
PathTexts(errs, chain) ==
    IF errs.type = "dict"
    THEN UNION {DictPaths(errs.val, ks, chain) : ks \in Orders(DOMAIN errs.val)}
    ELSE IF errs.type = "list" THEN ListPaths(errs.val, chain)
    ELSE {chain \o <<"\"">> \o errs.val \o <<"\"">>}

DictPaths(d, ks, chain) ==
    IF ks = <<>> THEN {<<>>}
    ELSE {a \o b : a \in PathTexts(d[Head(ks)], chain \o <<Head(ks), ".">>),
                   b \in DictPaths(d, Tail(ks), chain)}

ListPaths(l, chain) ==
    IF l = <<>> THEN {<<>>}
    ELSE {a \o b : a \in PathTexts(Head(l), chain), b \in ListPaths(Tail(l), chain)}

\* The logical name of the document whose validation failed.
FailedDocument ==
    IF Truthy(validate_config(config).errors)
    THEN <<"configuration file">> ELSE <<"deployment file">>

\* C18: the message main() raises for a document that does not validate is
\* "Validation error(s) in <logical name>: " followed by the error tree
\* rendered path by path: every leaf message in quotes, in depth-first order,
\* each after the "<key>." segments of the whole path from the root to it, so
\* that two errors under the same parent both carry the parent's segments.
C18_FullPathPerLeaf ==
    raised = "ClickException"
    => message \in {<<"Validation error(s) in ">> \o FailedDocument \o <<": ">> \o t :
                       t \in PathTexts(errors, <<>>)}

---------------------------------------------------------------------------
(* C19 *)

\* A spec or paster mapping with its fail_on_error taken out.
StripPolicy(spec) == [k \in DOMAIN spec \ {"fail_on_error"} |-> spec[k]]

\* What the builder of execute gives for a place of the plan when the
\* fail_on_error of its spec is taken out.
BuiltAt(pos) ==
    LET kind == Dispatch(Plan[pos[1]])
    IN IF kind = "install" THEN _pip_install(StripPolicy(SpecAt(pos)))
       ELSE IF kind = "uninstall" THEN _pip_uninstall(StripPolicy(SpecAt(pos)))
       ELSE _paster_cmd(StripPolicy(SpecAt(pos)))

\* The k-th pair of a plan: argument vector and identity label; the restart
\* comes after the commands of the plan.  Neither dry_run nor any
\* fail_on_error is read.
ExpectedPair(k) ==
    IF k <= Len(Flat) THEN [argv |-> BuiltAt(Flat[k]).cmd, label |-> UserLabel]
    ELSE [argv |-> << <<"svc">>, <<"restart">>, <<"site">> >>, label |-> RootLabel]

\* How many pairs a run of the plan gives when no command fails: all those
\* before the first place whose command cannot be built, the restart
\* included when there is no such place.
ExpectedCount ==
    LET raising == {k \in 1..Len(Flat) : BuiltAt(Flat[k]).raised # "none"}
    IN IF "deployment" \notin DOMAIN deployment THEN 0
       ELSE IF raising = {} THEN Len(Flat) + 1
       ELSE (CHOOSE k \in raising : \A j \in raising : k <= j) - 1

\* The line _execute logged for call c: the first event of the call.
LineOf(c) ==
    events[CHOOSE i \in 1..Len(events) :
              events[i].call = c /\ events[i - 1].call < c].msg

\* execute was entered and is over, and no child failed or failed to start.
EndedUnfailed ==
    /\ pc \in {"done", "error"}
    /\ events # <<>>
    /\ \A i \in EventsOf("exit") : events[i].returncode = 0
    /\ \A i \in EventsOf("spawn") : events[i].started

\* C19: in a dry run and in a real run alike, the k-th line logged is the
\* k-th pair of the plan, a function of the plan and the configuration that
\* reads neither dry_run nor any fail_on_error, after "DRY RUN: " in a dry run
\* and after nothing in a real run; in a real run the k-th child is spawned
\* with that argument vector and under the identity of that label; and a run
\* in which no command fails, dry or real, gives the same number of pairs.
\* So the dry run of a plan logs what the real run logs and spawns when every
\* command succeeds, and does so whatever the plan's fail_on_error values.
C19_DryRunMatchesRealRun ==
    /\ \A c \in 1..Len(calls) :
          /\ LineOf(c) = (IF dry_run THEN <<"DRY RUN: ">> ELSE <<>>)
                         \o <<"(AS ">> \o ExpectedPair(c).label \o <<") ">>
                         \o Join(ExpectedPair(c).argv)
          /\ ~dry_run
             => \E j \in EventsOf("spawn") :
                   /\ events[j].call = c
                   /\ events[j].argv = ExpectedPair(c).argv
                   /\ events[j].preexec = <<>>
                         <=> ExpectedPair(c).label = RootLabel
          /\ dry_run => \A j \in EventsOf("spawn") : events[j].call # c
    /\ Len(calls) <= ExpectedCount
    /\ EndedUnfailed => Len(calls) = ExpectedCount

\* A real run that returned, in which every command succeeded, of a plan with
\* a spec whose fail_on_error is false and one whose fail_on_error is true.
C19_Witness ==
    /\ ~dry_run
    /\ pc = "done"
    /\ EndedUnfailed
    /\ Len(calls) = 3
    /\ \E c, d \in 1..2 :
          /\ "fail_on_error" \in DOMAIN SpecAt(Flat[c])
          /\ ~Policy(SpecAt(Flat[c]))
          /\ "fail_on_error" \in DOMAIN SpecAt(Flat[d])
          /\ Policy(SpecAt(Flat[d]))

=============================================================================
